---- MODULE Spec2Model ----
(***************************************************************************)
(* Autonomous autorotation controller of a traditional helicopter:         *)
(* AC_Autorotation (head-speed regulator, RPM health monitor) and          *)
(* ModeAutorotate (phase state machine), as found in                        *)
(* src/libraries/AC_Autorotation/AC_Autorotation.cpp.                       *)
(*                                                                         *)
(* Units.  Times are integer milliseconds (the code divides millisecond    *)
(* differences by 1000.0f and compares with seconds; the model compares    *)
(* the millisecond values with the thresholds scaled by 1000).  Ratios,    *)
(* gains and the collective are fixed point, Unit standing for 1.0, and a  *)
(* float quotient is rounded to the nearest multiple of 1/Unit.  RPM       *)
(* readings are integer RPM.  Cut-off frequencies are mHz.                 *)
(***************************************************************************)
EXTENDS Integers, FiniteSets, Sequences, TLC

VARIABLES
    clock,            \* last value returned by millis()
    loop_ms,          \* period of the scheduler loop that calls run(), ms
    time_unsigned,    \* TRUE: the mode's time stamps are uint32_t, FALSE: float
    active,           \* ModeAutorotate is the vehicle's current flight mode
    phase_switch,     \* ModeAutorotate::phase_switch
    now,              \* ModeAutorotate::now
    timers,           \* _entry_time_start, _flare_time_start, _bail_time_start, _bail_time
    flags,            \* ModeAutorotate::_flags (one-shot phase flags, bad_rpm)
    msg_flags,        \* ModeAutorotate::_msg_flags
    hs,               \* the mode's _initial_rpm, _target_head_speed, _hs_decay, _pitch_target,
                      \* _desired_v_z, _target_climb_rate_adjust, _target_pitch_adjust
    arot,             \* the AC_Autorotation object (g2.arot)
    prev_control_mode,\* copter.prev_control_mode
    env,              \* what the last tick read from its collaborators
    out,              \* what the last tick handed to its collaborators
    hist,             \* run lengths of the RPM samples fed to the regulator
    calc              \* a regulator or a flare computation exercised on its own

vars == <<clock, loop_ms, time_unsigned, active, phase_switch, now, timers, flags,
          msg_flags, hs, arot, prev_control_mode, env, out, hist, calc>>

allButCalc == <<clock, loop_ms, time_unsigned, active, phase_switch, now, timers, flags,
                msg_flags, hs, arot, prev_control_mode, env, out, hist>>

modeVars == <<clock, loop_ms, time_unsigned, active, phase_switch, now, timers, flags,
              msg_flags, hs, prev_control_mode, env, out, calc>>

-----------------------------------------------------------------------------
(* Resolution of the fixed-point image of the floats: Unit stands for 1.0 *)

Unit == 100

(* Program constants *)

AUTOROTATE_ENTRY_TIME == 2000
BAILOUT_MOTOR_RAMP_TIME == 1000
HEAD_SPEED_TARGET_RATIO == Unit
AROT_BAIL_OUT_TIME == 2000
AROT_FLARE_TIME_PERIOD_MIN == 500
AROT_TD_TARGET_ALT_DEFAULT == 50
HS_CONTROLLER_HEADSPEED_P == (7 * Unit) \div 10
HS_CONTROLLER_ENTRY_COL_FILTER == 700
HS_CONTROLLER_GLIDE_COL_FILTER == 100
AROT_FLARE_COLLECTIVE_FILTER_DEFAULT == 500
HS_SET_PT_DEFAULT == 1500
AROT_ANGLE_MAX_MIN == 1500
AROT_TD_TARGET_VEL_DEFAULT == 50
TD_END_VEL == 50
AROT_FLARE_MIN_ACCEL_PEAK == (105 * Unit) \div 100
AROT_FLARE_MAX_ACCEL_DEFAULT == 2 * Unit
GRAVITY_CMSS == 981
FLARE_FWD_VEL_END == 500
TD_ALT_COEFF == 23733
SIN_ANGLE_MAX == 2588
INV_2PI == 1592
INV_2PI_SQ == 507
FWD_SPD_CONTROLLER_GND_SPEED_TARGET == 1100
FWD_SPD_CONTROLLER_MAX_ACCEL == 60
ACCEL_MAX_LIMIT == 60
AP_FW_VEL_P == Unit
AP_FW_VEL_FF == (15 * Unit) \div 100
FWD_ACCEL_FILTER_CUTOFF == 10000
ANGLE_MAX_DEFAULT == 0
RPM_UNHEALTHY_LIMIT == 30
RPM_HEALTHY_CLEAR == 10
COLLECTIVE_INIT == (4 * Unit) \div 10
COLLECTIVE_MIN == -Unit

(* Bounds of the model *)

StepMs == 500         \* period of the scheduler loop, ms
MaxNow == 4000        \* no tick is taken once the clock would pass this
MaxUnhealthy == 33    \* no unhealthy sample is fed once the counter is here
MaxSamples == 52      \* samples fed to the regulator in isolation
MaxNowRpm == 12500    \* the time horizon of the runs with a faulty RPM sensor
F_PERIOD == 1500      \* the configured flare time period (parameter F_PERIOD)

-----------------------------------------------------------------------------
(* Phases, flight modes, sensor readings *)

ENTRY == "ENTRY"
SS_GLIDE == "SS_GLIDE"
FLARE == "FLARE"
TOUCH_DOWN == "TOUCH_DOWN"
BAIL_OUT == "BAIL_OUT"

Autorotation_Phase == {ENTRY, SS_GLIDE, FLARE, TOUCH_DOWN, BAIL_OUT}

\* What the RPM library gives a tick: << >> when AP_RPM::get_singleton() is
\* nullptr, <<r>> when rpm->get_rpm(instance) returns r
NoSensor == << >>
Reading(r) == <<r>>

\* No time stamp recorded
NoTime == -1

\* a / b rounded to the nearest integer (b > 0): the fixed-point image of a
\* float quotient
FDiv(a, b) == (2 * a + b) \div (2 * b)

MAXV(a, b) == IF a >= b THEN a ELSE b

MINV(a, b) == IF a <= b THEN a ELSE b

AbsV(x) == IF x < 0 THEN -x ELSE x

\* constrain_float(x, lo, hi)
Constrain_none(x, lo, hi) == x
Constrain(x, lo, hi) == IF x < lo THEN lo ELSE IF x > hi THEN hi ELSE x

-----------------------------------------------------------------------------
(* Low-pass filter primitive (LowPassFilterFloat) *)

\* alpha = dt / (dt + 1/(2 pi fc)), in thousandths; fc in mHz, dt in ms
LpfAlpha(cutoff, dt) ==
    LET x == FDiv(FDiv(6283 * cutoff, 1000) * dt, 1000)
    IN  IF cutoff <= 0 \/ dt <= 0 THEN 1000 ELSE FDiv(1000 * x, x + 1000)

\* apply(): output += (sample - output) * alpha
LpfApply(state, sample, cutoff, dt) ==
    state + FDiv((sample - state) * LpfAlpha(cutoff, dt), 1000)

-----------------------------------------------------------------------------
(* AC_Autorotation *)

\* AC_Autorotation::init(): flags and RPM health counters reset
ArotInit ==
    [ bad_rpm |-> FALSE,
      bad_rpm_warning |-> FALSE,
      hs_ctrl_running |-> FALSE,
      unhealthy_rpm_counter |-> 0,
      healthy_rpm_counter |-> 0,
      param_head_speed_set_point |-> MAXV(HS_SET_PT_DEFAULT, 500),
      flare_time_period |-> MAXV(AROT_FLARE_TIME_PERIOD_MIN, F_PERIOD),
      col_cutoff_freq |-> 0,
      target_head_speed |-> 0,
      dt |-> 0,
      current_rpm |-> 0,
      p_term_hs |-> 0,
      ff_term_hs |-> 0,
      col_trim_lpf |-> 0,
      collective_out |-> 0,
      col_trim_cutoff |-> 0,
      param_bail_time |-> AROT_BAIL_OUT_TIME,
      param_vel_z_td |-> AROT_TD_TARGET_VEL_DEFAULT,
      angle_max |-> MAXV(ANGLE_MAX_DEFAULT, AROT_ANGLE_MAX_MIN),
      pitch_target |-> 0,
      pitch_out |-> 0,
      pitch_trim_lpf |-> 0,
      pitch_trim_cutoff |-> 0,
      p_term_pitch |-> 0,
      p_term_col |-> 0,
      ff_pitch_term |-> 0,
      vel_z_initial |-> 0,
      flare_ic_sets |-> 0 ]

\* AC_Autorotation::init(), lines 273-284: what it derives from the
\* parameters HS_SET_PT, ANGLE_MAX and FWD_ACC_MX and from the attitude
\* controller's lean_angle_max().  The assignment of line 278 is overwritten
\* by line 281 before anything reads _angle_max.
AC_Autorotation_init(param_head_speed_set_point, param_angle_max, lean_angle_max, param_accel_max) ==
    [ param_head_speed_set_point |-> MAXV(param_head_speed_set_point, 500),
      angle_max |-> MAXV(param_angle_max, AROT_ANGLE_MAX_MIN),
      accel_max |-> MINV(param_accel_max, ACCEL_MAX_LIMIT) ]

\* AC_Autorotation::init_hs_controller()
init_hs_controller(a) ==
    [a EXCEPT !.hs_ctrl_running = TRUE,
              !.collective_out = COLLECTIVE_INIT,
              !.col_trim_lpf = COLLECTIVE_INIT]

\* The value get_rpm() returns
get_rpm_value(sensor) == IF sensor = NoSensor THEN 0 ELSE sensor[1]

\* The sample is classified unhealthy by this call alone
rpm_sample_unhealthy(sensor) == sensor = NoSensor \/ get_rpm_value(sensor) <= -1

\* Line 392 with the counter already incremented: the run of healthy samples
\* is long enough to clear the fault
healthy_run_clears_9(a) == a.healthy_rpm_counter >= RPM_HEALTHY_CLEAR - 1
healthy_run_clears(a) == a.healthy_rpm_counter >= RPM_HEALTHY_CLEAR

\* Lines 385-386: an unhealthy update is counted and the run of healthy ones
\* starts again
count_unhealthy_keep_run(a) == [a EXCEPT !.unhealthy_rpm_counter = @ + 1]
count_unhealthy(a) ==
    [a EXCEPT !.unhealthy_rpm_counter = @ + 1, !.healthy_rpm_counter = 0]

\* AC_Autorotation::get_rpm(): effect on the object.  _flags.bad_rpm is only
\* ever set here; it is cleared by update_hs_glide_controller alone.
get_rpm(a, sensor) ==
    LET bad == a.bad_rpm \/ rpm_sample_unhealthy(sensor)
        a1  == [a EXCEPT !.bad_rpm = bad]
    IN  IF bad
        THEN count_unhealthy(a1)
        ELSE IF a1.unhealthy_rpm_counter > 0
        THEN LET a2 == [a1 EXCEPT !.healthy_rpm_counter = @ + 1]
             IN  IF healthy_run_clears(a2)
                 THEN [a2 EXCEPT !.unhealthy_rpm_counter = 0,
                                 !.healthy_rpm_counter = 0]
                 ELSE a2
        ELSE a1

\* Lines 302-304: the flags update_hs_glide_controller resets on entry
hs_reset_flags_keep_warning(a) == [a EXCEPT !.bad_rpm = FALSE]
hs_reset_flags(a) == [a EXCEPT !.bad_rpm = FALSE, !.bad_rpm_warning = FALSE]

\* Line 309: the RPM signal is still trusted
rpm_counter_within_limit_lt(a) == a.unhealthy_rpm_counter < RPM_UNHEALTHY_LIMIT
rpm_counter_within_limit(a) == a.unhealthy_rpm_counter <= RPM_UNHEALTHY_LIMIT

\* AC_Autorotation::update_hs_glide_controller(); the returned flag is
\* the bad_rpm_warning field of the result
update_hs_glide_controller(a, sensor) ==
    LET a0  == hs_reset_flags(a)
        a1  == [get_rpm(a0, sensor) EXCEPT !.current_rpm = get_rpm_value(sensor)]
    IN  IF rpm_counter_within_limit(a1)
        THEN LET head_speed_norm == FDiv(a1.current_rpm * Unit, a1.param_head_speed_set_point)
                 head_speed_error == head_speed_norm - a1.target_head_speed
                 p  == FDiv(HS_CONTROLLER_HEADSPEED_P * head_speed_error, Unit)
                 ff == LpfApply(a1.col_trim_lpf, a1.collective_out, a1.col_cutoff_freq, a1.dt)
             IN  [a1 EXCEPT !.col_trim_cutoff = a1.col_cutoff_freq,
                            !.p_term_hs = p,
                            !.ff_term_hs = ff,
                            !.col_trim_lpf = ff,
                            !.collective_out = p + ff]
        ELSE [a1 EXCEPT !.collective_out = COLLECTIVE_MIN,
                        !.bad_rpm_warning = TRUE]

\* AC_Autorotation::update_forward_speed_controller(): the pitch target it
\* leaves in _pitch_target is the measurement record's fwd_pitch (cdeg)
update_forward_speed_controller(a, meas) == [a EXCEPT !.pitch_target = meas.fwd_pitch]

\* A float that may be not-a-number or infinite: should_flare() divides by
\* the square of the measured forward velocity
Fin(v) == [k |-> "fin", v |-> v]
NaN == [k |-> "nan", v |-> 0]
Inf(sign) == [k |-> "inf", v |-> sign]

\* x < c and x > c for a float x and a finite c: false when x is not a number
FloatLT(x, c) == IF x.k = "nan" THEN FALSE ELSE IF x.k = "inf" THEN x.v < 0 ELSE x.v < c
FloatGT(x, c) == IF x.k = "nan" THEN FALSE ELSE IF x.k = "inf" THEN x.v > 0 ELSE x.v > c

\* Conversion of a float quotient a/b (b > 0) to an integer type: toward zero
TruncDiv(a, b) == IF a >= 0 THEN a \div b ELSE -((-a) \div b)

\* sqrtf, rounded down
ISqrt(n) == CHOOSE r \in 0..4000 : r * r <= n /\ (r + 1) * (r + 1) > n

\* sinf and cosf of 2 pi k/4, the flare time being k quarters of the period
SinQ(k) == CASE k = 1 -> 1 [] k = 3 -> -1 [] OTHER -> 0
CosQ(k) == CASE k = 1 -> 0 [] k = 2 -> -1 [] k = 3 -> 0 [] OTHER -> 1

\* accel_peak * period^2 in cm, the peak in cm/s/s and the period in ms
AccelPeriodSq(accel_peak, period) ==
    FDiv(accel_peak * (period \div 100) * (period \div 100), 100)

\* Lines 562-563: 2.0f * (v_end - v) / _flare_time_period, in cm/s/s
flare_delta_accel_peak_no_period(v_end, v, period) == 2 * (v_end - v)
flare_delta_accel_peak(v_end, v, period) == FDiv(2 * (v_end - v) * 1000, period)

\* Lines 806-811: calc_position_target at _flare_time = k/4 of the period:
\* (a/4)(t^2 + T^2/(2 pi^2)(cos(2 pi t/T) - 1)) + v0 t + p0, as int32_t
calc_position_target_half(accel_peak, vel_initial, pos_initial, k, period) ==
    TruncDiv(AccelPeriodSq(accel_peak, period) * k * k * 1250
                + vel_initial * ((k * period) \div 4) * 40 + pos_initial * 40000,
             40000)
calc_position_target(accel_peak, vel_initial, pos_initial, k, period) ==
    TruncDiv(AccelPeriodSq(accel_peak, period) * (625 * k * k + INV_2PI_SQ * (CosQ(k) - 1))
                + vel_initial * ((k * period) \div 4) * 40 + pos_initial * 40000,
             40000)

\* Lines 814-820: calc_velocity_target at _flare_time = k/4 of the period:
\* (a/2)(t - T sin(2 pi t/T)/(2 pi)) + v0, as int16_t
calc_velocity_target(accel_peak, vel_initial, k, period) ==
    TruncDiv(accel_peak * (period \div 100) * (2500 * k - INV_2PI * SinQ(k))
                + vel_initial * 200000,
             200000)

\* AC_Autorotation::should_flare() with the measured vertical and forward
\* velocities, the measured drag term of line 570, the measured altitude,
\* the flare time period, the value held by _flare_accel_fwd_peak (which
\* this function reads and nothing in the file writes), and what the
\* conversion of a negative float to uint32_t yields at line 594.  The
\* angle test |acos(fwd/resultant) - 90 deg| > angle_max is made on the sine.
should_flare(a, z_vel, fwd_vel, current_drag, pos_z, period, fwd_peak, neg_to_uint) ==
    LET delta_z == flare_delta_accel_peak(-a.param_vel_z_td, z_vel, period)
        delta_fwd == flare_delta_accel_peak(FLARE_FWD_VEL_END, fwd_vel, period)
        accel_z == delta_z + GRAVITY_CMSS
        prediction == TruncDiv(fwd_peak * period + 4000 * fwd_vel, 4000)
        numer == current_drag * prediction * prediction
        quotient == IF fwd_vel = 0
                    THEN (IF numer = 0 THEN NaN ELSE Inf(IF numer > 0 THEN 1 ELSE -1))
                    ELSE Fin(FDiv(numer, fwd_vel * fwd_vel))
        fwd_delta == IF quotient.k = "fin" THEN Fin(quotient.v - AbsV(fwd_peak))
                     ELSE quotient
        resultant == IF fwd_delta.k = "fin"
                     THEN Fin(ISqrt(accel_z * accel_z + fwd_delta.v * fwd_delta.v))
                     ELSE IF fwd_delta.k = "inf" THEN Inf(1) ELSE NaN
        mag_fail == \/ FloatLT(resultant, FDiv(AROT_FLARE_MIN_ACCEL_PEAK * GRAVITY_CMSS, Unit))
                    \/ FloatGT(resultant, FDiv(AROT_FLARE_MAX_ACCEL_DEFAULT * GRAVITY_CMSS, Unit))
        angle_fail == IF resultant.k = "fin"
                      THEN AbsV(fwd_delta.v) * 10000 > resultant.v * SIN_ANGLE_MAX
                      ELSE FALSE
        td_numer == AccelPeriodSq(delta_z, period) * TD_ALT_COEFF
                       + z_vel * period * 100 + pos_z * 100000
        td_alt == IF td_numer < 0 THEN neg_to_uint ELSE td_numer \div 100000
        alt_fail == \/ 2 * td_alt < AROT_TD_TARGET_ALT_DEFAULT
                    \/ 2 * td_alt > 3 * AROT_TD_TARGET_ALT_DEFAULT
    IN  [ ret |-> ~mag_fail /\ ~angle_fail /\ ~alt_fail,
          flare_delta_accel_z_peak |-> delta_z,
          flare_delta_accel_fwd_peak |-> delta_fwd,
          flare_accel_z_peak |-> accel_z,
          fwd_accel_delta |-> fwd_delta,
          flare_resultant_accel_peak |-> resultant,
          angle_checked |-> ~mag_fail,
          angle_fail |-> ~mag_fail /\ angle_fail,
          alt_checked |-> ~mag_fail /\ ~angle_fail,
          td_alt_wrapped |-> td_numer < 0,
          td_alt_predicted |-> td_alt ]

\* Lines 487-497: the commanded velocity moves toward the target by `step`
fwd_ramp_unclamped(cmd, target, step) ==
    IF cmd < target THEN cmd + step ELSE cmd - step
fwd_ramp(cmd, target, step) ==
    IF cmd < target THEN MINV(cmd + step, target) ELSE MAXV(cmd - step, target)

\* Lines 513-517: the change from the previous output is limited to amax
fwd_rate_clamp_none(x, last, amax) == x
fwd_rate_clamp(x, last, amax) ==
    IF x > last + amax THEN last + amax
    ELSE IF x < last - amax THEN last - amax
    ELSE x

\* AC_Autorotation::init_fwd_spd_controller() with calc_speed_forward()
\* giving `speed`, the velocity target as set_desired_fwd_speed() leaves it,
\* and the previous measured speed `speed_last`, which it does not reset
init_fwd_spd_controller(speed, speed_last) ==
    [ op |-> "fwd",
      calls |-> 0,
      accel_max |-> MINV(FWD_SPD_CONTROLLER_MAX_ACCEL, ACCEL_MAX_LIMIT),
      vel_target |-> FWD_SPD_CONTROLLER_GND_SPEED_TARGET,
      cmd_vel |-> speed,
      accel_target |-> 0,
      accel_out_last |-> FDiv(speed * AP_FW_VEL_FF, Unit),
      accel_out |-> 0,
      accel_target_filter |-> 0,
      speed_forward |-> 0,
      speed_forward_last |-> speed_last,
      delta_speed_fwd |-> 0,
      flag_limit_accel |-> FALSE,
      vel_p |-> 0,
      vel_ff |-> 0,
      cmd_vel_initial |-> speed,
      accel_out_prev |-> 0 ]

\* AC_Autorotation::update_forward_speed_controller(), lines 478-531, on the
\* controller record c with calc_speed_forward() giving `speed`; the pitch
\* target of line 534 is a function of accel_out alone
forward_speed_controller(c, speed, dt) ==
    LET delta == speed - c.speed_forward_last
        step == FDiv(c.accel_max * dt, 1000)
        cmd == fwd_ramp(c.cmd_vel, c.vel_target, step)
        vel_p == FDiv(AP_FW_VEL_P * (cmd - speed), Unit)
        vel_ff == FDiv(cmd * AP_FW_VEL_FF, Unit)
        filtered == LpfApply(c.accel_target_filter, vel_ff + vel_p,
                             FWD_ACCEL_FILTER_CUTOFF, dt)
        target == fwd_rate_clamp(vel_ff + vel_p, c.accel_out_last, c.accel_max)
        limit == AbsV(delta) > step
        accel_out == IF (limit /\ AbsV(target) < AbsV(c.accel_out_last)) \/ ~limit
                     THEN target
                     ELSE c.accel_out_last
    IN  [c EXCEPT !.calls = @ + 1,
                  !.speed_forward = speed,
                  !.delta_speed_fwd = delta,
                  !.speed_forward_last = speed,
                  !.cmd_vel = cmd,
                  !.vel_p = vel_p,
                  !.vel_ff = vel_ff,
                  !.accel_target_filter = filtered,
                  !.accel_target = target,
                  !.flag_limit_accel = limit,
                  !.accel_out = accel_out,
                  !.accel_out_last = accel_out,
                  !.accel_out_prev = c.accel_out_last]

\* AC_Autorotation::set_flare_initial_cond(): the snapshot of the measured
\* velocity and the pitch output seeded from the pitch target; flare_ic_sets
\* counts the snapshots taken
set_flare_initial_cond(a, meas) ==
    [a EXCEPT !.vel_z_initial = meas.vel_z,
              !.pitch_out = a.pitch_target,
              !.flare_ic_sets = @ + 1]

\* AC_Autorotation::init_flare_controller(): no call of it exists in
\* ModeAutorotate
init_flare_controller(a, ahrs_pitch) ==
    LET a0 == IF ~a.hs_ctrl_running
              THEN [a EXCEPT !.collective_out = Unit \div 2, !.pitch_target = ahrs_pitch]
              ELSE a
    IN  [a0 EXCEPT !.col_trim_cutoff = a0.col_cutoff_freq,
                   !.col_trim_lpf = a0.collective_out,
                   !.pitch_trim_lpf = a0.pitch_target]

\* AC_Autorotation::update_flare_controller(), lines 732-751: the P terms
\* are the measurement record's flare_p_pitch and flare_p_col, the feed
\* forward terms come from the two trim filters as they stand
update_flare_controller(a, meas) ==
    LET ff_col   == LpfApply(a.col_trim_lpf, a.collective_out, a.col_trim_cutoff, a.dt)
        ff_pitch == LpfApply(a.pitch_trim_lpf, a.pitch_out, a.pitch_trim_cutoff, a.dt)
        pitch    == Constrain(meas.flare_p_pitch + ff_pitch, -a.angle_max, a.angle_max)
    IN  [a EXCEPT !.p_term_pitch = meas.flare_p_pitch,
                  !.p_term_col = meas.flare_p_col,
                  !.ff_term_hs = ff_col,
                  !.col_trim_lpf = ff_col,
                  !.ff_pitch_term = ff_pitch,
                  !.pitch_trim_lpf = ff_pitch,
                  !.pitch_out = pitch,
                  !.pitch_target = pitch,
                  !.collective_out = Constrain(meas.flare_p_col + ff_col, 0, Unit)]

-----------------------------------------------------------------------------
(* ModeAutorotate *)

\* Scheduler loop period handed to the regulators (ms); one tick per clock step
G_Dt == loop_ms

\* (a - b)/1000.0f >= limit/1000 for two time stamps a, b as the mode
\* evaluates it.  With float time stamps the difference is exact.  With
\* uint32_t time stamps it is (a - b) mod 2^32: a - b when a >= b, and
\* 2^32 - (b - a) when a < b, which is above 2^31 and therefore above every
\* limit the model compares it with (all limits are below 2^31).
TimeDiffGE(a, b, limit) ==
    IF time_unsigned /\ a < b THEN TRUE ELSE a - b >= limit

\* (a - b)/1000.0f > limit/1000, likewise
TimeDiffGT(a, b, limit) ==
    IF time_unsigned /\ a < b THEN TRUE ELSE a - b > limit

\* g2.arot.get_td_alt_targ(), g2.arot.get_flare_time_period(), g2.arot.get_bail_time()
get_td_alt_targ == AROT_TD_TARGET_ALT_DEFAULT
get_flare_time_period == arot.flare_time_period
get_bail_time == arot.param_bail_time
get_td_vel_targ == arot.param_vel_z_td

\* Line 1136: abs(g2.arot.get_td_vel_targ())*-1
td_climb_rate_signed(v) == v
td_climb_rate(v) == -AbsV(v)

\* Line 948: the entry timer has run out
EntryTimerExpired_swapped(t) ==
    TimeDiffGT(timers.entry_time_start, t, AUTOROTATE_ENTRY_TIME)
EntryTimerExpired(t) ==
    TimeDiffGT(t, timers.entry_time_start, AUTOROTATE_ENTRY_TIME)

\* Line 961: the flare timer has run out
FlareTimerExpired(t) ==
    TimeDiffGE(timers.flare_time_start, t, get_flare_time_period)

\* Line 955: the touch-down altitude check
TouchDownAltCheck_below(p, curr_alt) ==
    p # TOUCH_DOWN /\ p # BAIL_OUT /\ get_td_alt_targ > curr_alt
TouchDownAltCheck(p, curr_alt) ==
    p # TOUCH_DOWN /\ p # BAIL_OUT /\ get_td_alt_targ >= curr_alt

\* Line 968: the guard of the should_flare() call
FlareCheckGuard_flare_only(p) == p # FLARE
FlareCheckGuard(p) == p # FLARE /\ p # TOUCH_DOWN

\* Line 923: the interlock sends the phase to BAIL_OUT
InterlockBailOut_landed_too(interlock, land_complete) == interlock
InterlockBailOut(interlock, land_complete) == interlock /\ ~land_complete

\* Lines 923-974: the phase dispatched by a tick that starts in phase p at
\* time t, as a record of the intermediate phases
Transition(p, t, interlock, land_complete, curr_alt, flare_ok) ==
    LET p0 == IF InterlockBailOut(interlock, land_complete) THEN BAIL_OUT ELSE p
        p1 == IF p0 = ENTRY /\ EntryTimerExpired(t) THEN SS_GLIDE ELSE p0
        td_alt == TouchDownAltCheck(p1, curr_alt)
        p2 == IF td_alt THEN TOUCH_DOWN ELSE p1
        td_timer == p2 = FLARE /\ FlareTimerExpired(t)
        p3 == IF td_timer THEN TOUCH_DOWN ELSE p2
        sf_called == FlareCheckGuard(p3)
        p4 == IF sf_called /\ flare_ok THEN FLARE ELSE p3
    IN  [ exit_landed |-> interlock /\ land_complete,
          at_alt_check |-> p1,
          td_alt |-> td_alt,
          td_timer |-> td_timer,
          sf_called |-> sf_called,
          dispatched |-> p4 ]

\* ModeAutorotate::message_handler: the flags after message m
message_flags_keep_rpm(mf, m) ==
    CASE m = "FLARE_EXIT_ALT" -> [mf EXCEPT !.flare_exit_td_alt = FALSE]
      [] m = "FLARE_EXIT_TIMER" ->
            IF mf.flare_exit_td_alt THEN [mf EXCEPT !.flare_exit_timer = FALSE] ELSE mf
      [] OTHER -> mf
message_flags(mf, m) ==
    CASE m = "POOR_RPM_SENSOR" -> [mf EXCEPT !.bad_rpm = FALSE]
      [] m = "FLARE_EXIT_ALT" -> [mf EXCEPT !.flare_exit_td_alt = FALSE]
      [] m = "FLARE_EXIT_TIMER" ->
            IF mf.flare_exit_td_alt THEN [mf EXCEPT !.flare_exit_timer = FALSE] ELSE mf
      [] OTHER -> mf

\* ModeAutorotate::message_handler: the texts sent to the ground station
message_text(mf, m) ==
    CASE m = "POOR_RPM_SENSOR" /\ mf.bad_rpm -> {"Warning: Poor RPM Sensor Health"}
      [] m = "FLARE_EXIT_ALT" /\ mf.flare_exit_td_alt -> {"TD Reason Alt"}
      [] m = "FLARE_EXIT_TIMER" /\ mf.flare_exit_td_alt -> {"TD Reason Timer"}
      [] OTHER -> {}

\* Line 914: the rate at which ENTRY lowers the head speed target (Unit/s)
hs_decay_rate(initial_rpm, set_point) ==
    FDiv(FDiv(initial_rpm * Unit, set_point) - HEAD_SPEED_TARGET_RATIO,
         AUTOROTATE_ENTRY_TIME \div 1000)

\* Lines 1006-1010: the head speed target after one ENTRY tick that read rpm
entry_target_head_speed(target, rpm, decay, dt) ==
    IF rpm * 1000 > 1005 \/ rpm * 1000 < 995
    THEN target - FDiv(decay * dt, 1000)
    ELSE HEAD_SPEED_TARGET_RATIO

\* Line 985: the run-once block of the ENTRY case is due
EntryFirstTick_always(f) == TRUE
EntryFirstTick(f) == f.entry_initial = TRUE

\* Lines 982-1028: the ENTRY action
EntryAction(sensor, meas) ==
    LET a0 == IF EntryFirstTick(flags)
              THEN [arot EXCEPT !.col_cutoff_freq = HS_CONTROLLER_ENTRY_COL_FILTER]
              ELSE arot
        target0 == IF EntryFirstTick(flags)
                   THEN FDiv(hs.initial_rpm * Unit, arot.param_head_speed_set_point)
                   ELSE hs.target_head_speed
        rpm == get_rpm_value(sensor)
        above == rpm * 1000 > 1005
        below == rpm * 1000 < 995
        a1 == get_rpm(a0, sensor)
        a2 == IF above THEN a1 ELSE get_rpm(a1, sensor)
        target1 == entry_target_head_speed(target0, rpm, hs.hs_decay, G_Dt)
        a3 == update_forward_speed_controller(
                  [a2 EXCEPT !.target_head_speed = target1, !.dt = G_Dt], meas)
        a4 == update_hs_glide_controller(a3, sensor)
    IN  [ arot |-> a4,
          hs |-> [hs EXCEPT !.target_head_speed = target1,
                            !.pitch_target = a3.pitch_target],
          flags |-> [flags EXCEPT !.entry_initial = FALSE, !.bad_rpm = a4.bad_rpm_warning],
          timers |-> timers,
          requests |-> << >>,
          climb_rate |-> << >>,
          once |-> EntryFirstTick(flags) ]

\* Lines 1030-1067: the SS_GLIDE action
GlideAction(sensor, meas) ==
    LET a0 == IF flags.ss_glide_initial
              THEN [arot EXCEPT !.col_cutoff_freq = HS_CONTROLLER_GLIDE_COL_FILTER,
                                !.target_head_speed = HEAD_SPEED_TARGET_RATIO]
              ELSE arot
        target1 == IF flags.ss_glide_initial
                   THEN HEAD_SPEED_TARGET_RATIO
                   ELSE hs.target_head_speed
        af == update_forward_speed_controller([a0 EXCEPT !.dt = G_Dt], meas)
        a1 == update_hs_glide_controller(af, sensor)
    IN  [ arot |-> a1,
          hs |-> [hs EXCEPT !.target_head_speed = target1,
                            !.pitch_target = af.pitch_target],
          flags |-> [flags EXCEPT !.ss_glide_initial = FALSE, !.bad_rpm = a1.bad_rpm_warning],
          timers |-> timers,
          requests |-> << >>,
          climb_rate |-> << >>,
          once |-> flags.ss_glide_initial ]

\* Line 1072: the run-once block of the FLARE case is due
FlareFirstTick_always(f) == TRUE
FlareFirstTick(f) == f.flare_initial = TRUE

\* Lines 1069-1108: the FLARE action
FlareAction(t, meas) ==
    LET a0 == IF FlareFirstTick(flags)
              THEN [set_flare_initial_cond(arot, meas) EXCEPT
                       !.col_cutoff_freq = AROT_FLARE_COLLECTIVE_FILTER_DEFAULT]
              ELSE arot
        a1 == update_flare_controller(
                  [a0 EXCEPT !.dt = G_Dt, !.target_head_speed = HEAD_SPEED_TARGET_RATIO],
                  meas)
    IN  [ arot |-> a1,
          hs |-> [hs EXCEPT !.pitch_target = a1.pitch_target],
          flags |-> [flags EXCEPT !.flare_initial = FALSE],
          timers |-> IF FlareFirstTick(flags)
                     THEN [timers EXCEPT !.flare_time_start = t]
                     ELSE timers,
          requests |-> << >>,
          climb_rate |-> << >>,
          once |-> FlareFirstTick(flags) ]

\* Lines 1125-1126: the acceleration limit of the touch down as a float,
\* before its conversion to int32_t: (end_vel^2 - curr_vel_z^2)/(2 curr_alt)
touch_down_accel_linear(curr_vel_z, curr_alt) ==
    LET numer == TD_END_VEL * TD_END_VEL - curr_vel_z * curr_vel_z
        divisor == 2 * curr_alt
    IN  [ divisor |-> divisor,
          quotient |-> IF divisor = 0
                       THEN (IF numer = 0 THEN NaN ELSE Inf(IF numer > 0 THEN 1 ELSE -1))
                       ELSE Fin(TruncDiv(numer, divisor)) ]

\* Lines 1110-1145: the TOUCH_DOWN action
TouchDownAction(curr_alt, meas) ==
    [ arot |-> arot,
      hs |-> [hs EXCEPT !.pitch_target = 0],
      flags |-> [flags EXCEPT !.touch_down_initial = FALSE],
      timers |-> timers,
      requests |-> << >>,
      climb_rate |-> << td_climb_rate(get_td_vel_targ) >>,
      once |-> flags.touch_down_initial,
      accel_linear |-> IF flags.touch_down_initial
                       THEN << touch_down_accel_linear(meas.vel_z, curr_alt) >>
                       ELSE << >> ]

\* Lines 1209-1213: the flight mode requested when the bail-out time is over
bail_out_exit_mode_previous(prev) == prev
bail_out_exit_mode(prev) == IF prev = "AUTO" THEN "ALT_HOLD" ELSE prev

\* Lines 1147-1217: the BAIL_OUT action
\* Line 1195: the motor ramp allowance has passed
BailRampActive_at_once(t, tm) == TRUE
BailRampActive(t, tm) == TimeDiffGE(t, tm.bail_time_start, BAILOUT_MOTOR_RAMP_TIME)

BailOutAction(t, meas) ==
    LET tm == IF flags.bail_out_initial
              THEN [timers EXCEPT
                      !.bail_time = MAXV(get_bail_time, BAILOUT_MOTOR_RAMP_TIME + 100),
                      !.bail_time_start = t]
              ELSE timers
        h0 == IF flags.bail_out_initial
              THEN [hs EXCEPT
                      !.desired_v_z = meas.vel_z,
                      !.target_climb_rate_adjust =
                          FDiv((meas.vel_z - meas.pilot_v_z) * 1000,
                               tm.bail_time - BAILOUT_MOTOR_RAMP_TIME),
                      !.target_pitch_adjust = FDiv(hs.pitch_target * 1000, tm.bail_time)]
              ELSE hs
        h1 == IF BailRampActive(t, tm)
              THEN [h0 EXCEPT
                      !.desired_v_z = @ - FDiv(h0.target_climb_rate_adjust * G_Dt, 1000),
                      !.pitch_target = @ - FDiv(h0.target_pitch_adjust * G_Dt, 1000)]
              ELSE h0
        done == TimeDiffGE(t, tm.bail_time_start, tm.bail_time)
    IN  [ arot |-> arot,
          hs |-> h1,
          flags |-> [flags EXCEPT !.bail_out_initial = FALSE],
          timers |-> tm,
          requests |-> IF done THEN << bail_out_exit_mode(prev_control_mode) >> ELSE << >>,
          climb_rate |-> << h1.desired_v_z >>,
          once |-> flags.bail_out_initial ]

\* Lines 980-1218: the action of the dispatched phase
PhaseAction(p, t, curr_alt, sensor, meas) ==
    CASE p = ENTRY -> EntryAction(sensor, meas)
      [] p = SS_GLIDE -> GlideAction(sensor, meas)
      [] p = FLARE -> FlareAction(t, meas)
      [] p = TOUCH_DOWN -> TouchDownAction(curr_alt, meas)
      [] p = BAIL_OUT -> BailOutAction(t, meas)

\* Lines 871-881: init() refuses the activation
init_refused_enable_only(enable, interlock) == ~enable
init_refused(enable, interlock) == ~enable \/ interlock

\* ModeAutorotate::init() with the feature enabled or not, the interlock
\* engaged or not, and the RPM source giving `sensor`
ModeInit(enable, interlock, sensor) ==
    /\ ~active
    /\ out.activations = 0
    /\ clock + loop_ms <= MaxNow
    /\ IF init_refused(enable, interlock)
       THEN /\ out' = [out EXCEPT !.init_result = "failed",
                                  !.init_enable = enable,
                                  !.init_interlock = interlock]
            /\ UNCHANGED <<clock, active, phase_switch, now, timers, flags, msg_flags,
                           hs, arot, env>>
       ELSE LET a1 == get_rpm(init_hs_controller(arot), sensor)
                initial_rpm == get_rpm_value(sensor)
            IN  /\ clock' = clock + loop_ms
                /\ arot' = a1
                /\ active' = TRUE
                /\ flags' = [flags EXCEPT !.entry_initial = TRUE,
                                          !.ss_glide_initial = TRUE,
                                          !.flare_initial = TRUE,
                                          !.touch_down_initial = TRUE,
                                          !.bail_out_initial = TRUE]
                /\ msg_flags' = [bad_rpm |-> TRUE, flare_exit_td_alt |-> TRUE,
                                 flare_exit_timer |-> TRUE]
                /\ phase_switch' = ENTRY
                /\ timers' = [timers EXCEPT !.entry_time_start = clock']
                /\ hs' = [hs EXCEPT
                            !.initial_rpm = initial_rpm,
                            !.hs_decay =
                               hs_decay_rate(initial_rpm, a1.param_head_speed_set_point)]
                /\ out' = [out EXCEPT !.init_result = "ok",
                                      !.init_enable = enable,
                                      !.init_interlock = interlock,
                                      !.activations = @ + 1]
                /\ UNCHANGED <<now, env>>
    /\ UNCHANGED <<loop_ms, time_unsigned, prev_control_mode, hist, calc>>

\* What a tick measures besides the altitude and the RPM: the vertical
\* velocity (cm/s), the pilot's constrained climb rate demand (cm/s), the
\* pitch target the forward speed controller arrives at (cdeg) and the two
\* proportional terms of the flare controller (cdeg, Unit)
Meas(vel_z, pilot_v_z, fwd_pitch, flare_p_pitch, flare_p_col) ==
    [ vel_z |-> vel_z, pilot_v_z |-> pilot_v_z, fwd_pitch |-> fwd_pitch,
      flare_p_pitch |-> flare_p_pitch, flare_p_col |-> flare_p_col ]

NominalMeas == Meas(-600, 0, -500, 0, 0)

\* One call of ModeAutorotate::run()
RunStep(interlock, land_complete, curr_alt, flare_ok, sensor, meas) ==
    /\ active
    /\ arot.unhealthy_rpm_counter < MaxUnhealthy \/ ~rpm_sample_unhealthy(sensor)
    /\ LET t   == clock + loop_ms
           tr  == Transition(phase_switch, t, interlock, land_complete, curr_alt, flare_ok)
           m1  == IF tr.td_alt THEN "FLARE_EXIT_ALT" ELSE "NONE"
           mf1 == message_flags(msg_flags, m1)
           m2  == IF tr.td_timer THEN "FLARE_EXIT_TIMER" ELSE "NONE"
           mf2 == message_flags(mf1, m2)
           act == PhaseAction(tr.dispatched, t, curr_alt, sensor, meas)
           m3  == IF act.flags.bad_rpm THEN "POOR_RPM_SENSOR" ELSE "NONE"
           mf3 == message_flags(mf2, m3)
           req == (IF tr.exit_landed THEN <<prev_control_mode>> ELSE << >>)
                     \o act.requests
           bail_entry == tr.dispatched = BAIL_OUT /\ flags.bail_out_initial
       IN  /\ clock' = t
           /\ now' = t
           /\ phase_switch' = tr.dispatched
           /\ arot' = act.arot
           /\ hs' = act.hs
           /\ flags' = act.flags
           /\ timers' = act.timers
           /\ msg_flags' = mf3
           /\ env' = [ phase_at_start |-> phase_switch,
                       interlock |-> interlock,
                       land_complete |-> land_complete,
                       curr_alt |-> curr_alt,
                       sensor |-> sensor,
                       flare_ok |-> tr.sf_called /\ flare_ok,
                       interlock_since |->
                          IF interlock /\ ~land_complete
                          THEN (IF env.interlock_since = NoTime THEN t
                                ELSE env.interlock_since)
                          ELSE NoTime,
                       bail_pilot_v_z |->
                          IF bail_entry THEN meas.pilot_v_z ELSE env.bail_pilot_v_z,
                       bail_pitch |->
                          IF bail_entry THEN hs.pitch_target ELSE env.bail_pitch ]
           /\ out' = [out EXCEPT
                        !.ticks = 1,
                        !.at_alt_check = tr.at_alt_check,
                        !.sf_called = tr.sf_called,
                        !.gcs = message_text(msg_flags, m1) \cup message_text(mf1, m2)
                                   \cup message_text(mf2, m3),
                        !.advisories = @ + (IF message_text(mf2, m3) # {} THEN 1 ELSE 0),
                        !.set_mode = req,
                        !.pitch_cmd = act.hs.pitch_target,
                        !.climb_rate_cmd = act.climb_rate,
                        !.once_runs = [@ EXCEPT ![tr.dispatched] =
                                          @ + (IF act.once THEN 1 ELSE 0)],
                        !.td_accel_linear =
                           IF tr.dispatched = TOUCH_DOWN /\ act.accel_linear # << >>
                           THEN act.accel_linear ELSE @]
           /\ active' = (req = << >>)
    /\ UNCHANGED <<loop_ms, time_unsigned, prev_control_mode, hist, calc>>

\* One call of ModeAutorotate::run() within the time horizon of the model
Run(interlock, land_complete, curr_alt, flare_ok, sensor) ==
    /\ clock + loop_ms <= MaxNow
    /\ RunStep(interlock, land_complete, curr_alt, flare_ok, sensor, NominalMeas)

-----------------------------------------------------------------------------
(* Bookkeeping of the samples fed to update_hs_glide_controller: n samples  *)
(* so far, all of them unhealthy or not, the length of the current run of   *)
(* healthy samples, the regulator's result just before that run began, and   *)
(* whether the last sample cut short a run of fewer than RPM_HEALTHY_CLEAR   *)
(* healthy samples that had begun with the result true                       *)

\* No computation is exercised on its own
CalcIdle == [op |-> "none"]

HistInit ==
    [n |-> 0, all_unhealthy |-> TRUE, good_run |-> 0, bad_before_run |-> FALSE,
     cut_short |-> FALSE]

HistNext(h, sensor, result) ==
    IF rpm_sample_unhealthy(sensor)
    THEN [ n |-> h.n + 1,
           all_unhealthy |-> h.all_unhealthy,
           good_run |-> 0,
           bad_before_run |-> result,
           cut_short |-> h.bad_before_run /\ h.good_run \in 1..(RPM_HEALTHY_CLEAR - 1) ]
    ELSE [ n |-> h.n + 1,
           all_unhealthy |-> FALSE,
           good_run |-> IF h.good_run > RPM_HEALTHY_CLEAR THEN h.good_run ELSE h.good_run + 1,
           bad_before_run |-> h.bad_before_run,
           cut_short |-> FALSE ]

-----------------------------------------------------------------------------
(* The flight mode from boot: AC_Autorotation::init() has run, the mode is   *)
(* not yet active                                                           *)

Altitudes == {AROT_TD_TARGET_ALT_DEFAULT, AROT_TD_TARGET_ALT_DEFAULT + 1}

ModeSensorReadings == {Reading(HS_SET_PT_DEFAULT)}

EnvInit ==
    [phase_at_start |-> ENTRY, interlock |-> FALSE, land_complete |-> FALSE,
     curr_alt |-> 0, sensor |-> NoSensor, flare_ok |-> FALSE, interlock_since |-> NoTime,
     bail_pilot_v_z |-> 0, bail_pitch |-> 0]

\* The state at boot with the scheduler loop period and the BAIL_TIME
\* parameter given
BootMode(period, bail_time) ==
    /\ clock = 0
    /\ loop_ms = period
    /\ time_unsigned \in BOOLEAN
    /\ active = FALSE
    /\ phase_switch = ENTRY
    /\ now = 0
    /\ timers = [entry_time_start |-> 0, flare_time_start |-> 0,
                 bail_time_start |-> 0, bail_time |-> 0]
    /\ flags = [entry_initial |-> FALSE, ss_glide_initial |-> FALSE,
                flare_initial |-> FALSE, touch_down_initial |-> FALSE,
                bail_out_initial |-> FALSE, bad_rpm |-> FALSE]
    /\ msg_flags = [bad_rpm |-> FALSE, flare_exit_td_alt |-> FALSE,
                    flare_exit_timer |-> FALSE]
    /\ hs = [initial_rpm |-> 0, target_head_speed |-> 0, hs_decay |-> 0,
             pitch_target |-> 0, desired_v_z |-> 0,
             target_climb_rate_adjust |-> 0, target_pitch_adjust |-> 0]
    /\ arot = [ArotInit EXCEPT !.param_bail_time = bail_time]
    /\ prev_control_mode \in {"AUTO", "STABILIZE"}
    /\ env = EnvInit
    /\ out = [init_result |-> "none", init_enable |-> FALSE, init_interlock |-> FALSE,
              activations |-> 0, ticks |-> 0,
              at_alt_check |-> ENTRY, sf_called |-> FALSE, gcs |-> {}, advisories |-> 0,
              set_mode |-> << >>, pitch_cmd |-> 0, climb_rate_cmd |-> << >>,
              once_runs |-> [q \in Autorotation_Phase |-> 0], td_accel_linear |-> << >>]
    /\ hist = HistInit

Boot(period, bail_time) == BootMode(period, bail_time) /\ calc = CalcIdle

Init == Boot(StepMs, AROT_BAIL_OUT_TIME)

Activate ==
    \E enable \in BOOLEAN, interlock \in BOOLEAN, sensor \in ModeSensorReadings :
        ModeInit(enable, interlock, sensor)

Tick ==
    \E interlock \in BOOLEAN, land_complete \in BOOLEAN, curr_alt \in Altitudes,
       flare_ok \in BOOLEAN, sensor \in ModeSensorReadings :
        Run(interlock, land_complete, curr_alt, flare_ok, sensor)

Next == Activate \/ Tick

Spec == Init /\ [][Next]_vars

-----------------------------------------------------------------------------
(* The head-speed regulator on its own: after AC_Autorotation::init() and    *)
(* init_hs_controller(), with the target head speed, the trim filter cut-off *)
(* and dt set as the ENTRY phase sets them, one update_hs_glide_controller   *)
(* call per step                                                             *)

HsSensorReadings == {NoSensor, Reading(-1), Reading(HS_SET_PT_DEFAULT)}

InitHS ==
    /\ clock = 0
    /\ loop_ms = StepMs
    /\ time_unsigned = FALSE
    /\ active = FALSE
    /\ phase_switch = ENTRY
    /\ now = 0
    /\ timers = [entry_time_start |-> 0, flare_time_start |-> 0,
                 bail_time_start |-> 0, bail_time |-> 0]
    /\ flags = [entry_initial |-> FALSE, ss_glide_initial |-> FALSE,
                flare_initial |-> FALSE, touch_down_initial |-> FALSE,
                bail_out_initial |-> FALSE, bad_rpm |-> FALSE]
    /\ msg_flags = [bad_rpm |-> FALSE, flare_exit_td_alt |-> FALSE,
                    flare_exit_timer |-> FALSE]
    /\ hs = [initial_rpm |-> 0, target_head_speed |-> 0, hs_decay |-> 0,
             pitch_target |-> 0, desired_v_z |-> 0,
             target_climb_rate_adjust |-> 0, target_pitch_adjust |-> 0]
    /\ arot = [init_hs_controller(ArotInit) EXCEPT
                  !.target_head_speed = HEAD_SPEED_TARGET_RATIO,
                  !.col_cutoff_freq = HS_CONTROLLER_ENTRY_COL_FILTER,
                  !.dt = G_Dt]
    /\ prev_control_mode = "STABILIZE"
    /\ env = EnvInit
    /\ out = [init_result |-> "none", init_enable |-> FALSE, init_interlock |-> FALSE,
              activations |-> 0, ticks |-> 0,
              at_alt_check |-> ENTRY, sf_called |-> FALSE, gcs |-> {}, advisories |-> 0,
              set_mode |-> << >>, pitch_cmd |-> 0, climb_rate_cmd |-> << >>,
              once_runs |-> [q \in Autorotation_Phase |-> 0], td_accel_linear |-> << >>]
    /\ hist = HistInit
    /\ calc = CalcIdle

HsSample(sensor) ==
    /\ hist.n < MaxSamples
    /\ arot.unhealthy_rpm_counter < MaxUnhealthy \/ ~rpm_sample_unhealthy(sensor)
    /\ arot' = update_hs_glide_controller(arot, sensor)
    /\ hist' = HistNext(hist, sensor, arot'.bad_rpm_warning)
    /\ UNCHANGED modeVars

NextHS == \E sensor \in HsSensorReadings : HsSample(sensor)

SpecHS == InitHS /\ [][NextHS]_vars

-----------------------------------------------------------------------------
(* The RPM health monitor on its own: from reset counters, any sequence of   *)
(* get_rpm() calls, made directly (as line 1006 does) or by                  *)
(* update_hs_glide_controller, which clears _flags.bad_rpm first             *)

\* calls made in one run
MaxRpmCalls == 14

InitGetRpm == InitHS

GetRpmCall(sensor) ==
    /\ hist.n < MaxRpmCalls
    /\ arot' = get_rpm(arot, sensor)
    /\ hist' = HistNext(hist, sensor, arot'.bad_rpm_warning)
    /\ UNCHANGED modeVars

HsUpdateCall(sensor) ==
    /\ hist.n < MaxRpmCalls
    /\ arot' = update_hs_glide_controller(arot, sensor)
    /\ hist' = HistNext(hist, sensor, arot'.bad_rpm_warning)
    /\ UNCHANGED modeVars

NextGetRpm ==
    \E sensor \in HsSensorReadings : GetRpmCall(sensor) \/ HsUpdateCall(sensor)

SpecGetRpm == InitGetRpm /\ [][NextGetRpm]_vars

-----------------------------------------------------------------------------
(* The flight mode with a faulty RPM sensor: the interlock stays released,   *)
(* the vehicle stays above the touch-down altitude and should_flare() stays  *)
(* false, so the mode runs ENTRY then SS_GLIDE; each tick's RPM reading is    *)
(* healthy or not                                                            *)

RpmSensorReadings == {Reading(-1), Reading(HS_SET_PT_DEFAULT)}

InitRpm ==
    /\ Init
    /\ time_unsigned = FALSE
    /\ prev_control_mode = "STABILIZE"

ActivateRpm ==
    \E sensor \in RpmSensorReadings : ModeInit(TRUE, FALSE, sensor)

TickRpm ==
    \E sensor \in RpmSensorReadings :
        /\ clock + loop_ms <= MaxNowRpm
        /\ RunStep(FALSE, FALSE, AROT_TD_TARGET_ALT_DEFAULT + 1, FALSE, sensor, NominalMeas)

NextRpm == ActivateRpm \/ TickRpm

SpecRpm == InitRpm /\ [][NextRpm]_vars

-----------------------------------------------------------------------------
(* The flight mode through all its phases with a faulty RPM sensor: on each  *)
(* tick the interlock is engaged or not with the vehicle airborne, the       *)
(* altitude is above the touch-down altitude or zero, should_flare() is true *)
(* or false, and the RPM reading is healthy or not                           *)

\* the time horizon of these runs
MaxNowPhases == 3000

PhaseSensorReadings == {Reading(-1), Reading(HS_SET_PT_DEFAULT)}

PhaseAltitudes == {0, AROT_TD_TARGET_ALT_DEFAULT + 1}

InitPhases ==
    /\ Init
    /\ time_unsigned = FALSE
    /\ prev_control_mode = "STABILIZE"

ActivatePhases ==
    \E sensor \in PhaseSensorReadings : ModeInit(TRUE, FALSE, sensor)

TickPhases ==
    \E interlock \in BOOLEAN, curr_alt \in PhaseAltitudes, flare_ok \in BOOLEAN,
       sensor \in PhaseSensorReadings :
        /\ clock + loop_ms <= MaxNowPhases
        /\ RunStep(interlock, FALSE, curr_alt, flare_ok, sensor, NominalMeas)

NextPhases == ActivatePhases \/ TickPhases

SpecPhases == InitPhases /\ [][NextPhases]_vars

-----------------------------------------------------------------------------
(* The exits of the flight mode: the vehicle stays above the touch-down      *)
(* altitude with healthy RPM readings; on each tick the interlock is engaged *)
(* or not, the vehicle is landed or not and should_flare() is true or false; *)
(* the previous control mode is AUTO or STABILIZE                            *)

InitExit ==
    /\ Init
    /\ time_unsigned = FALSE

ActivateExit ==
    \E sensor \in ModeSensorReadings : ModeInit(TRUE, FALSE, sensor)

TickExit ==
    \E interlock \in BOOLEAN, land_complete \in BOOLEAN, flare_ok \in BOOLEAN,
       sensor \in ModeSensorReadings :
        Run(interlock, land_complete, AROT_TD_TARGET_ALT_DEFAULT + 1, flare_ok, sensor)

NextExit == ActivateExit \/ TickExit

SpecExit == InitExit /\ [][NextExit]_vars

-----------------------------------------------------------------------------
(* AC_Autorotation::init() on its own, for settings of the parameters        *)
(* HS_SET_PT, ANGLE_MAX and FWD_ACC_MX and of the attitude controller's      *)
(* maximum lean angle                                                       *)

\* ANGLE_MAX settings (cdeg): unset, below the floor, at it, above it
InitAngleMaxParams == {0, 1000, AROT_ANGLE_MAX_MIN, 3000, 8000}
\* lean_angle_max() of the attitude controller (cdeg)
InitLeanAngles == {1000, 3000, 4500}
\* FWD_ACC_MX settings (cm/s/s)
InitAccelParams == {30, FWD_SPD_CONTROLLER_MAX_ACCEL, 90}
\* HS_SET_PT settings (RPM)
InitSetPoints == {0, HS_SET_PT_DEFAULT}

InitArotInit ==
    /\ BootMode(StepMs, AROT_BAIL_OUT_TIME)
    /\ time_unsigned = FALSE
    /\ prev_control_mode = "STABILIZE"
    /\ \E set_point \in InitSetPoints, angle \in InitAngleMaxParams,
          lean \in InitLeanAngles, accel \in InitAccelParams :
          calc = [ op |-> "init", called |-> FALSE,
                   param_head_speed_set_point |-> set_point, param_angle_max |-> angle,
                   lean_angle_max |-> lean, param_accel_max |-> accel ]

ArotInitCall ==
    /\ calc.op = "init"
    /\ ~calc.called
    /\ calc' = [ op |-> "init", called |-> TRUE,
                 param_head_speed_set_point |-> calc.param_head_speed_set_point,
                 param_angle_max |-> calc.param_angle_max,
                 lean_angle_max |-> calc.lean_angle_max,
                 param_accel_max |-> calc.param_accel_max,
                 r |-> AC_Autorotation_init(calc.param_head_speed_set_point,
                                            calc.param_angle_max, calc.lean_angle_max,
                                            calc.param_accel_max) ]
    /\ UNCHANGED allButCalc

NextArotInit == ArotInitCall

SpecArotInit == InitArotInit /\ [][NextArotInit]_vars

-----------------------------------------------------------------------------
(* The ENTRY ramp of the head speed target on its own: the mode is activated *)
(* with the rotor above or below the set point; ENTRY ticks follow every     *)
(* wall_step ms of the millis() clock, the first one first_elapsed ms after  *)
(* the activation, each handing the regulators the loop time G_Dt = g_dt,    *)
(* for as long as line 948 keeps the phase at ENTRY                          *)

\* RPM at activation, with the set point at its default
EntryInitialRpms == {1200, 2100}
\* G_Dt (ms)
EntryLoopTimes == {250, 500}
\* time between two ticks on the millis() clock (ms)
EntryWallSteps == {250, 400, 500}
\* healthy readings of the ENTRY ticks (RPM)
EntryReadings == {1200, HS_SET_PT_DEFAULT, 2100}

InitEntryRamp ==
    /\ BootMode(StepMs, AROT_BAIL_OUT_TIME)
    /\ time_unsigned = FALSE
    /\ prev_control_mode = "STABILIZE"
    /\ \E initial_rpm \in EntryInitialRpms, g_dt \in EntryLoopTimes,
          wall_step \in EntryWallSteps :
          \E first_elapsed \in {0, wall_step} :
             calc = [ op |-> "entry", ticks |-> 0,
                      g_dt |-> g_dt, wall_step |-> wall_step,
                      next_elapsed |-> first_elapsed,
                      initial_ratio |-> FDiv(initial_rpm * Unit, arot.param_head_speed_set_point),
                      hs_decay |-> hs_decay_rate(initial_rpm, arot.param_head_speed_set_point),
                      target_head_speed |->
                          FDiv(initial_rpm * Unit, arot.param_head_speed_set_point) ]

\* One tick that dispatches ENTRY: lines 945-952 leave the phase at ENTRY,
\* lines 1005-1010 move the target
EntryRampTick(rpm) ==
    /\ calc.op = "entry"
    /\ ~TimeDiffGT(calc.next_elapsed, 0, AUTOROTATE_ENTRY_TIME)
    /\ calc' = [ calc EXCEPT
                   !.ticks = @ + 1,
                   !.next_elapsed = @ + calc.wall_step,
                   !.target_head_speed =
                       entry_target_head_speed(@, rpm, calc.hs_decay, calc.g_dt) ]
    /\ UNCHANGED allButCalc

NextEntryRamp == \E rpm \in EntryReadings : EntryRampTick(rpm)

SpecEntryRamp == InitEntryRamp /\ [][NextEntryRamp]_vars

-----------------------------------------------------------------------------
(* The descent without interlock events and above the touch-down altitude:   *)
(* activation with the rotor at 1.4 times the set point, every RPM reading   *)
(* healthy, should_flare() true or false on each tick                        *)

DescentInitialReadings == {Reading((14 * HS_SET_PT_DEFAULT) \div 10)}

DescentSensorReadings ==
    {Reading((14 * HS_SET_PT_DEFAULT) \div 10), Reading(HS_SET_PT_DEFAULT), Reading(1)}

DescentPitches == {-500, 300}

InitDescent ==
    /\ Init
    /\ time_unsigned = FALSE
    /\ prev_control_mode = "STABILIZE"

ActivateDescent ==
    \E sensor \in DescentInitialReadings : ModeInit(TRUE, FALSE, sensor)

TickDescent ==
    \E sensor \in DescentSensorReadings, flare_ok \in BOOLEAN, fwd_pitch \in DescentPitches :
        /\ clock + loop_ms <= MaxNow
        /\ RunStep(FALSE, FALSE, AROT_TD_TARGET_ALT_DEFAULT + 1, flare_ok, sensor,
                   Meas(NominalMeas.vel_z, NominalMeas.pilot_v_z, fwd_pitch, 0, 0))

NextDescent == ActivateDescent \/ TickDescent

SpecDescent == InitDescent /\ [][NextDescent]_vars

-----------------------------------------------------------------------------
(* The flare controller inside the mode: the descent as above with a nominal *)
(* rotor speed, and on every tick any of three P terms for the pitch (one   *)
(* beyond each angle limit, one inside) and three for the collective         *)

MaxNowFlare == 3000

FlarePitchPTerms == {-4000, 700, 4000}

FlareColPTerms == {-(3 * Unit) \div 2, (3 * Unit) \div 10, (3 * Unit) \div 2}

InitFlareCtl ==
    /\ Init
    /\ time_unsigned = FALSE
    /\ prev_control_mode = "STABILIZE"

ActivateFlareCtl ==
    ModeInit(TRUE, FALSE, Reading(HS_SET_PT_DEFAULT))

TickFlareCtl ==
    \E flare_ok \in BOOLEAN, p_pitch \in FlarePitchPTerms, p_col \in FlareColPTerms :
        /\ clock + loop_ms <= MaxNowFlare
        /\ RunStep(FALSE, FALSE, AROT_TD_TARGET_ALT_DEFAULT + 1, flare_ok,
                   Reading(HS_SET_PT_DEFAULT),
                   Meas(NominalMeas.vel_z, NominalMeas.pilot_v_z, NominalMeas.fwd_pitch,
                        p_pitch, p_col))

NextFlareCtl == ActivateFlareCtl \/ TickFlareCtl

SpecFlareCtl == InitFlareCtl /\ [][NextFlareCtl]_vars

-----------------------------------------------------------------------------
(* The forward-speed controller on its own: init_fwd_spd_controller() at one *)
(* of three measured speeds, then one update_forward_speed_controller() call *)
(* per step with any of four measured speeds                                 *)

MaxFwdCalls == 4

FwdInitialSpeeds == {1040, 1100, 1150}

FwdSpeeds == {1000, 1040, 1100, 1150}

InitFwd ==
    /\ BootMode(StepMs, AROT_BAIL_OUT_TIME)
    /\ time_unsigned = FALSE
    /\ prev_control_mode = "STABILIZE"
    /\ \E speed \in FwdInitialSpeeds :
          \E speed_last \in {0, speed} :
              calc = init_fwd_spd_controller(speed, speed_last)

FwdUpdate(speed) ==
    /\ calc.calls < MaxFwdCalls
    /\ calc' = forward_speed_controller(calc, speed, G_Dt)
    /\ UNCHANGED allButCalc

NextFwd == \E speed \in FwdSpeeds : FwdUpdate(speed)

SpecFwd == InitFwd /\ [][NextFwd]_vars

-----------------------------------------------------------------------------
(* should_flare() on its own: one call for each combination of measured      *)
(* velocities, drag, altitude and flare time period, and the same call with  *)
(* twice the period                                                          *)

BigUint == 1000000000

FlareZVels == {-1650, -650, -30}

FlareFwdVels == {0, 900, 1100}

FlareDrags == {0, 100, 600}

FlareAlts == {100, 780, 1510}

FlarePeriods == {2000, 4000}

FlareFwdPeaks == {0, -200}

InitShouldFlare ==
    /\ BootMode(StepMs, AROT_BAIL_OUT_TIME)
    /\ time_unsigned = FALSE
    /\ prev_control_mode = "STABILIZE"
    /\ \E z_vel \in FlareZVels, fwd_vel \in FlareFwdVels, drag \in FlareDrags,
          pos_z \in FlareAlts, period \in FlarePeriods, fwd_peak \in FlareFwdPeaks,
          neg_to_uint \in {0, BigUint} :
          calc = [ op |-> "should_flare", called |-> FALSE,
                   z_vel |-> z_vel, fwd_vel |-> fwd_vel, drag |-> drag, pos_z |-> pos_z,
                   period |-> period, fwd_peak |-> fwd_peak, neg_to_uint |-> neg_to_uint ]

ShouldFlareCall ==
    /\ calc.op = "should_flare"
    /\ ~calc.called
    /\ calc' = [ op |-> "should_flare", called |-> TRUE,
                 z_vel |-> calc.z_vel, fwd_vel |-> calc.fwd_vel, drag |-> calc.drag,
                 pos_z |-> calc.pos_z, period |-> calc.period,
                 fwd_peak |-> calc.fwd_peak, neg_to_uint |-> calc.neg_to_uint,
                 r |-> should_flare(arot, calc.z_vel, calc.fwd_vel, calc.drag, calc.pos_z,
                                    calc.period, calc.fwd_peak, calc.neg_to_uint),
                 r2 |-> should_flare(arot, calc.z_vel, calc.fwd_vel, calc.drag, calc.pos_z,
                                     2 * calc.period, calc.fwd_peak, calc.neg_to_uint) ]
    /\ UNCHANGED allButCalc

NextShouldFlare == ShouldFlareCall

SpecShouldFlare == InitShouldFlare /\ [][NextShouldFlare]_vars

-----------------------------------------------------------------------------
(* The flare trajectory on its own: the velocity target of                   *)
(* calc_velocity_target() is sampled at the quarter points of the flare time *)
(* period and integrated by Simpson's rule, which is exact for the           *)
(* untruncated target (linear in time plus one full period of a sine),       *)
(* then calc_position_target() is evaluated at the end of the period.        *)

\* peak delta accelerations (cm/s/s)
TrajAccelPeaks == {-300, 100, 301, 600}
\* flare time periods (ms)
TrajPeriods == {2000, 4000}
\* initial velocities (cm/s)
TrajInitialVels == {-650, -601, 0}
\* initial positions (cm)
TrajInitialPositions == {0, 1500}

\* Simpson weights of the five quarter points
SimpsonWeight(k) == IF k = 0 \/ k = 4 THEN 1 ELSE IF k = 2 THEN 2 ELSE 4

InitTraj ==
    /\ BootMode(StepMs, AROT_BAIL_OUT_TIME)
    /\ time_unsigned = FALSE
    /\ prev_control_mode = "STABILIZE"
    /\ \E accel_peak \in TrajAccelPeaks, period \in TrajPeriods,
          vel_initial \in TrajInitialVels, pos_initial \in TrajInitialPositions :
          calc = [ op |-> "traj", k |-> 0, vel_sum |-> 0, done |-> FALSE, pos_target |-> 0,
                   accel_peak |-> accel_peak, period |-> period,
                   vel_initial |-> vel_initial, pos_initial |-> pos_initial ]

\* one call of calc_velocity_target() at the next quarter point
TrajSample ==
    /\ calc.op = "traj"
    /\ calc.k <= 4
    /\ calc' = [ calc EXCEPT
                   !.vel_sum = @ + SimpsonWeight(calc.k)
                                     * calc_velocity_target(calc.accel_peak, calc.vel_initial,
                                                            calc.k, calc.period),
                   !.k = @ + 1 ]
    /\ UNCHANGED allButCalc

\* calc_position_target() at _flare_time = _flare_time_period
TrajEnd ==
    /\ calc.op = "traj"
    /\ calc.k = 5
    /\ ~calc.done
    /\ calc' = [ calc EXCEPT
                   !.pos_target = calc_position_target(calc.accel_peak, calc.vel_initial,
                                                       calc.pos_initial, 4, calc.period),
                   !.done = TRUE ]
    /\ UNCHANGED allButCalc

NextTraj == TrajSample \/ TrajEnd

SpecTraj == InitTraj /\ [][NextTraj]_vars

\* 12000 times the difference, in cm, between the integral of the velocity
\* target over the period (vel_sum * period / 12, the period in ms) and the
\* position target at the end of the period less the initial position
TrajMismatch12000 ==
    calc.vel_sum * calc.period - 12000 * (calc.pos_target - calc.pos_initial)

-----------------------------------------------------------------------------
(* The bail-out: a faster scheduler loop, three settings of the BAIL_TIME    *)
(* parameter (below the minimum, the default, and one that is no multiple of *)
(* the loop period), the interlock engaged at any tick, two pilot climb      *)
(* rates and two pitch targets from the forward-speed controller; the        *)
(* vehicle stays above the touch-down altitude and should_flare() is false,  *)
(* so that every tick after the bail-out began dispatches BAIL_OUT           *)

BailStepMs == 250

BailTimes == {500, AROT_BAIL_OUT_TIME, AROT_BAIL_OUT_TIME + 300}

BailPilotRates == {0, 200}

BailPitches == {-1000, 600}

InitBail ==
    /\ \E b \in BailTimes : Boot(BailStepMs, b)
    /\ time_unsigned = FALSE

ActivateBail ==
    ModeInit(TRUE, FALSE, Reading(HS_SET_PT_DEFAULT))

TickBail ==
    \E interlock \in BOOLEAN, pilot_v_z \in BailPilotRates, fwd_pitch \in BailPitches :
        /\ clock + loop_ms <= MaxNow
        /\ RunStep(interlock, FALSE, AROT_TD_TARGET_ALT_DEFAULT + 1, FALSE,
                   Reading(HS_SET_PT_DEFAULT),
                   Meas(NominalMeas.vel_z, pilot_v_z, fwd_pitch, 0, 0))

NextBail == ActivateBail \/ TickBail

SpecBail == InitBail /\ [][NextBail]_vars

-----------------------------------------------------------------------------
(* Properties of the phase state machine (checked under Spec)               *)

\* A call of ModeAutorotate::run() has run in this activation; env and out
\* describe the last one
Ticked == out.ticks = 1

\* This step is a call of ModeAutorotate::run()
TickStep == active /\ clock' # clock

\* Time since the flare and the entry began, at the last tick
FlareElapsed == now - timers.flare_time_start
EntryElapsed == now - timers.entry_time_start

Rank(p) ==
    CASE p = ENTRY -> 0
      [] p = SS_GLIDE -> 1
      [] p = FLARE -> 2
      [] p = TOUCH_DOWN -> 3
      [] p = BAIL_OUT -> 4

\* C1: on every tick with the interlock engaged and the vehicle not landed
\* the dispatched phase is BAIL_OUT, whatever the phase before, the altitude
\* and the result of should_flare()
C1_InterlockDispatchesBailOut ==
    (Ticked /\ env.interlock /\ ~env.land_complete) => phase_switch = BAIL_OUT

\* C2: once a tick has dispatched BAIL_OUT, every later tick of the
\* activation dispatches BAIL_OUT
C2_BailOutIsTerminal ==
    [][(TickStep /\ Ticked /\ phase_switch = BAIL_OUT) => phase_switch' = BAIL_OUT]_vars

\* C3: on a tick without the interlock, from a phase other than BAIL_OUT,
\* the phase does not move backwards in the order ENTRY, SS_GLIDE, FLARE,
\* TOUCH_DOWN (and so stays TOUCH_DOWN once there) and does not become
\* BAIL_OUT
C3_PhaseMonotone ==
    [][(TickStep /\ ~env'.interlock /\ phase_switch # BAIL_OUT)
         => (phase_switch' # BAIL_OUT /\ Rank(phase_switch') >= Rank(phase_switch))]_vars

C3_Witness ==
    /\ Ticked
    /\ ~env.interlock
    /\ env.phase_at_start = TOUCH_DOWN
    /\ phase_switch = TOUCH_DOWN
    /\ env.curr_alt > get_td_alt_targ
    /\ ~flags.flare_initial

\* C4: a tick whose altitude is at or below the touch-down threshold while
\* the phase at the altitude check is neither TOUCH_DOWN nor BAIL_OUT
\* dispatches TOUCH_DOWN
C4_TouchDownAltitude ==
    (Ticked /\ env.curr_alt <= get_td_alt_targ
            /\ out.at_alt_check \notin {TOUCH_DOWN, BAIL_OUT})
       => phase_switch = TOUCH_DOWN

C4_Witness ==
    /\ Ticked
    /\ env.curr_alt = get_td_alt_targ
    /\ env.phase_at_start = ENTRY
    /\ out.at_alt_check = SS_GLIDE
    /\ phase_switch = TOUCH_DOWN

\* C5: a tick that starts in FLARE with now - _flare_time_start at or above
\* the flare time period ends in TOUCH_DOWN (stated for the ticks on which
\* the interlock is not engaged, where no bail-out takes precedence)
C5_FlareTimerFires ==
    (Ticked /\ env.phase_at_start = FLARE /\ ~env.interlock
            /\ FlareElapsed >= get_flare_time_period)
       => phase_switch = TOUCH_DOWN

NoHigherPriority ==
    ~env.interlock /\ env.curr_alt > get_td_alt_targ /\ ~env.flare_ok

\* C7 as stated: a tick that starts in ENTRY with the entry time at or above
\* 2.0 s, and no higher-priority transition, dispatches SS_GLIDE
C7_EntryTimerInclusive ==
    (Ticked /\ env.phase_at_start = ENTRY /\ NoHigherPriority
            /\ EntryElapsed >= AUTOROTATE_ENTRY_TIME)
       => phase_switch = SS_GLIDE

\* C7 amended: a tick that starts in ENTRY with no higher-priority
\* transition dispatches SS_GLIDE when the entry time is strictly above
\* 2.0 s, and stays in ENTRY at exactly 2.0 s and below
C7_EntryTimerStrict ==
    (Ticked /\ env.phase_at_start = ENTRY /\ NoHigherPriority)
       => (phase_switch = IF EntryElapsed > AUTOROTATE_ENTRY_TIME THEN SS_GLIDE ELSE ENTRY)

C7_Witness ==
    /\ Ticked
    /\ env.phase_at_start = ENTRY
    /\ NoHigherPriority
    /\ EntryElapsed > AUTOROTATE_ENTRY_TIME
    /\ phase_switch = SS_GLIDE

-----------------------------------------------------------------------------
(* Properties of the RPM health monitor in the head-speed regulator          *)
(* (checked under SpecHS)                                                    *)

\* C8: from reset counters, the result of update_hs_glide_controller is
\* false after each of the first 30 consecutive unhealthy samples and true
\* after the 31st
C8_FaultOnSample31 ==
    (hist.all_unhealthy /\ hist.n >= 1 /\ hist.n <= 31)
       => (arot.bad_rpm_warning <=> hist.n = 31)

C8_Witness ==
    hist.all_unhealthy /\ hist.n = 31 /\ arot.bad_rpm_warning

\* C9: after the result was true, it stays true after each of 1 to 9
\* consecutive healthy samples and is false after the 10th; an unhealthy
\* sample that cuts such a run short leaves the result true and starts the
\* count of healthy samples again
C9_ClearsOnHealthy10 ==
    /\ (hist.bad_before_run /\ hist.good_run >= 1 /\ hist.good_run <= 9)
          => arot.bad_rpm_warning
    /\ (hist.bad_before_run /\ hist.good_run = 10) => ~arot.bad_rpm_warning
    /\ hist.cut_short => (arot.bad_rpm_warning /\ arot.healthy_rpm_counter = 0)

C9_Witness ==
    hist.bad_before_run /\ hist.good_run = 10 /\ ~arot.bad_rpm_warning

\* The proportional plus feed-forward collective of a call with the object
\* in state a before it and reading rpm
PplusFF(a, rpm) ==
    FDiv(HS_CONTROLLER_HEADSPEED_P
            * (FDiv(rpm * Unit, a.param_head_speed_set_point) - a.target_head_speed), Unit)
      + LpfApply(a.col_trim_lpf, a.collective_out, a.col_cutoff_freq, a.dt)

\* C10: every update_hs_glide_controller call returns true and sets the
\* collective to its minimum exactly when unhealthy_count exceeds 30 after
\* the call's sample, and otherwise returns false and outputs the
\* proportional plus feed-forward collective
C10_ResultRecomputed ==
    [][(hist'.n = hist.n + 1) =>
          IF arot'.unhealthy_rpm_counter > 30
          THEN arot'.bad_rpm_warning /\ arot'.collective_out = COLLECTIVE_MIN
          ELSE ~arot'.bad_rpm_warning
               /\ arot'.collective_out = PplusFF(arot, arot'.current_rpm)]_vars

C10_Witness ==
    /\ hist.good_run >= 1
    /\ arot.bad_rpm_warning
    /\ arot.collective_out = COLLECTIVE_MIN
    /\ arot.unhealthy_rpm_counter > 30

\* C13: ModeAutorotate::init fails and leaves the phase, the one-shot phase
\* flags, the timers and the regulator state as they were whenever the
\* feature is disabled or the interlock is engaged; otherwise it succeeds
\* with phase ENTRY, every one-shot phase flag set and the entry timer
\* started at the current time
C13_InitAllOrNothing ==
    [][(~active /\ out' # out) =>
          IF ~out'.init_enable \/ out'.init_interlock
          THEN /\ out'.init_result = "failed"
               /\ ~active'
               /\ UNCHANGED <<phase_switch, flags, timers, hs, arot, msg_flags>>
          ELSE /\ out'.init_result = "ok"
               /\ active'
               /\ phase_switch' = ENTRY
               /\ flags'.entry_initial /\ flags'.ss_glide_initial /\ flags'.flare_initial
               /\ flags'.touch_down_initial /\ flags'.bail_out_initial
               /\ timers'.entry_time_start = clock']_vars

\* init() has just succeeded, after the millis() clock had advanced
C13_Witness ==
    /\ out.init_result = "ok"
    /\ out.init_enable /\ ~out.init_interlock
    /\ active /\ ~Ticked
    /\ phase_switch = ENTRY
    /\ flags.flare_initial
    /\ timers.entry_time_start = clock /\ clock > 0

\* C14: once a tick has dispatched FLARE, no later tick of the activation
\* executes should_flare(), which rewrites the flare prediction values
C14_PredictionFrozen ==
    [][(TickStep /\ ~flags.flare_initial) => ~out'.sf_called]_vars

\* This step is the first tick of the activation that dispatches FLARE
FirstFlareTick == TickStep /\ flags.flare_initial /\ phase_switch' = FLARE

\* C15: the flare start time and the flare initial conditions are captured
\* on the first tick that dispatches FLARE, from that tick's time and
\* measurements, and no other tick of the activation changes them
C15_FlareCapturedOnce ==
    [][TickStep =>
          IF FirstFlareTick
          THEN /\ timers'.flare_time_start = now'
               /\ arot'.flare_ic_sets = 1
               /\ arot'.vel_z_initial = NominalMeas.vel_z
               /\ ~flags'.flare_initial
          ELSE /\ timers'.flare_time_start = timers.flare_time_start
               /\ arot'.flare_ic_sets = arot.flare_ic_sets
               /\ arot'.vel_z_initial = arot.vel_z_initial
               /\ flags'.flare_initial = flags.flare_initial]_vars

\* FLARE is dispatched again after a bail-out, later than the tick that
\* captured the initial conditions
C15_Witness ==
    /\ Ticked
    /\ env.phase_at_start = BAIL_OUT
    /\ phase_switch = FLARE
    /\ ~flags.flare_initial
    /\ now > timers.flare_time_start
    /\ arot.flare_ic_sets = 1

\* Time for which the interlock has been engaged with the vehicle airborne on
\* every tick up to the last one
BailElapsed == now - env.interlock_since

\* C17: when the interlock has been engaged with the vehicle airborne on
\* every tick since some tick, a tick at which the time since that tick is
\* at least max(BAIL_TIME, 1.1 s) has requested a flight-mode change
C17_BailOutHandsOff ==
    (Ticked /\ env.interlock_since # NoTime
            /\ BailElapsed >= MAXV(get_bail_time, BAILOUT_MOTOR_RAMP_TIME + 100))
       => out.set_mode # << >>

-----------------------------------------------------------------------------
(* Properties of the RPM health monitor inside the flight mode              *)
(* (checked under SpecRpm)                                                   *)

\* C11: one tick of ModeAutorotate::run increases unhealthy_count by at most
\* 1 and healthy_count by at most 1
C11_OneSamplePerTick ==
    [][TickStep =>
          /\ arot'.unhealthy_rpm_counter <= arot.unhealthy_rpm_counter + 1
          /\ arot'.healthy_rpm_counter <= arot.healthy_rpm_counter + 1]_vars

-----------------------------------------------------------------------------
(* Properties of the regulators during the descent (checked under           *)
(* SpecDescent)                                                              *)

\* C16: on the first tick that dispatches FLARE the feed-forward terms of the
\* flare controller equal the outputs of the tick before: the collective
\* feed-forward is the previous collective output and the pitch
\* feed-forward is the previous pitch target
C16_FlareFiltersSeeded ==
    [][FirstFlareTick =>
          /\ arot'.ff_term_hs = arot.collective_out
          /\ arot'.ff_pitch_term = arot.pitch_target]_vars

\* C20: when every tick so far has run the ENTRY action with a healthy RPM
\* reading, the head-speed target after the tick that completes the 2.0 s
\* entry time is the nominal ratio 1.0
C20_EntryTargetReachesNominal ==
    (Ticked /\ phase_switch = ENTRY /\ EntryElapsed = AUTOROTATE_ENTRY_TIME)
       => hs.target_head_speed = HEAD_SPEED_TARGET_RATIO

-----------------------------------------------------------------------------
(* Properties of the bail-out ramps (checked under SpecBail)                 *)

\* This step is a call of run() that dispatches BAIL_OUT
BailTick == TickStep /\ phase_switch' = BAIL_OUT

\* Time since the bail-out began, at the last tick
BailOutElapsed == now - timers.bail_time_start

\* The last tick dispatched BAIL_OUT with the bail-out timer expired
BailExpired ==
    Ticked /\ phase_switch = BAIL_OUT /\ BailOutElapsed >= timers.bail_time

\* Lines 1197-1198: what one tick of the ramp subtracts
VzIncrement == FDiv(hs.target_climb_rate_adjust * loop_ms, 1000)
PitchIncrement == FDiv(hs.target_pitch_adjust * loop_ms, 1000)

\* The allowance and the bail-out time are whole multiples of the loop period
BailAligned ==
    BAILOUT_MOTOR_RAMP_TIME % loop_ms = 0 /\ timers.bail_time % loop_ms = 0

\* C18 as stated: on the tick where the elapsed bail-out time reaches the
\* bail-out time the commanded vertical rate is within one tick's increment
\* of the pilot-commanded rate
C18_RateWithinOneTick ==
    BailExpired =>
        AbsV(hs.desired_v_z - env.bail_pilot_v_z) <= AbsV(VzIncrement)

\* C18: a BAIL_OUT tick whose elapsed time is below the 1.0 s allowance leaves
\* the pitch target and the commanded vertical rate unchanged (the rate is
\* set to the measured rate on the first tick); a later BAIL_OUT tick
\* subtracts the same increment from the rate; on the tick where the timer
\* expires the rate is within two ticks' increments of the pilot-commanded
\* rate, and within one when the allowance and the bail-out time are whole
\* multiples of the loop period
C18_BailOutRateRamp ==
    /\ [](BailExpired =>
            /\ AbsV(hs.desired_v_z - env.bail_pilot_v_z) <= 2 * AbsV(VzIncrement)
            /\ BailAligned =>
                  AbsV(hs.desired_v_z - env.bail_pilot_v_z) <= AbsV(VzIncrement))
    /\ [][BailTick =>
             IF now' - timers'.bail_time_start < BAILOUT_MOTOR_RAMP_TIME
             THEN /\ hs'.pitch_target = hs.pitch_target
                  /\ hs'.desired_v_z = IF flags.bail_out_initial
                                       THEN NominalMeas.vel_z
                                       ELSE hs.desired_v_z
             ELSE /\ hs'.target_climb_rate_adjust = hs.target_climb_rate_adjust
                  /\ hs'.desired_v_z = hs.desired_v_z - VzIncrement]_vars

C18_Witness ==
    /\ BailExpired
    /\ ~BailAligned
    /\ env.bail_pilot_v_z # NominalMeas.vel_z
    /\ AbsV(hs.desired_v_z - env.bail_pilot_v_z) > AbsV(VzIncrement)

\* C19: on the tick where the bail-out timer expires the pitch target is
\* within one tick's increment of level, whatever the bail-out time and the
\* pitch target at the start of the bail-out
C19_PitchLevelAtExpiry ==
    BailExpired => AbsV(hs.pitch_target) <= AbsV(PitchIncrement)

-----------------------------------------------------------------------------
(* Properties of what a tick hands to the attitude and altitude controllers  *)
(* (checked under Spec)                                                      *)

\* C30: after a tick that dispatched TOUCH_DOWN the pitch handed to the
\* attitude controller is 0 and the climb rate handed to the altitude
\* controller is minus the magnitude of the configured touch-down velocity,
\* never a climb
C30_TouchDownTargets ==
    (Ticked /\ phase_switch = TOUCH_DOWN) =>
        /\ out.pitch_cmd = 0
        /\ out.climb_rate_cmd = << -AbsV(arot.param_vel_z_td) >>
        /\ out.climb_rate_cmd[1] <= 0

C30_Witness ==
    /\ Ticked
    /\ phase_switch = TOUCH_DOWN
    /\ env.phase_at_start = FLARE
    /\ out.climb_rate_cmd = << -AROT_TD_TARGET_VEL_DEFAULT >>
    /\ out.pitch_cmd = 0

-----------------------------------------------------------------------------
(* Properties of the flare controller's outputs (checked under SpecFlareCtl) *)

-----------------------------------------------------------------------------
(* Properties of the forward-speed controller (checked under SpecFwd)        *)

\* What one call may add to the commanded velocity
FwdStep == FDiv(calc.accel_max * loop_ms, 1000)

\* C26: every update_forward_speed_controller call moves the commanded
\* velocity by at most max_accel*dt, never away from the velocity target and
\* never past it, strictly closer while they differ, and leaves it at the
\* target once it is there
C26_CmdVelRampsToTarget ==
    [][calc'.calls = calc.calls + 1 =>
          /\ AbsV(calc'.cmd_vel - calc.cmd_vel) <= FwdStep
          /\ AbsV(calc'.cmd_vel - calc'.vel_target) <= AbsV(calc.cmd_vel - calc.vel_target)
          /\ (calc.cmd_vel - calc.vel_target) * (calc'.cmd_vel - calc'.vel_target) >= 0
          /\ calc.cmd_vel # calc.vel_target =>
                AbsV(calc'.cmd_vel - calc'.vel_target) < AbsV(calc.cmd_vel - calc.vel_target)
          /\ calc.cmd_vel = calc.vel_target => calc'.cmd_vel = calc'.vel_target]_vars

C26_Witness ==
    /\ calc.op = "fwd"
    /\ calc.cmd_vel_initial > calc.vel_target
    /\ (calc.cmd_vel_initial - calc.vel_target) % FwdStep # 0
    /\ calc.calls > 2
    /\ calc.cmd_vel = calc.vel_target

\* C27: the value that enters the rate clamp of a call is the output of the
\* 10 Hz low-pass filter fed with P*(cmd_vel - measured) + FF*cmd_vel, so
\* that the acceleration target is the clamped filter output
C27_ClampedTargetIsFiltered ==
    (calc.op = "fwd" /\ calc.calls > 0) =>
        calc.accel_target =
            fwd_rate_clamp(calc.accel_target_filter, calc.accel_out_prev, calc.accel_max)

\* C28: the acceleration output of a call differs from the previous output
\* by at most max_accel, and when the measured speed changed by more than
\* max_accel*dt since the previous call the output is the previous output or
\* is strictly smaller in magnitude
C28_AccelOutputLimited ==
    [][calc'.calls = calc.calls + 1 =>
          /\ AbsV(calc'.accel_out - calc.accel_out_last) <= calc.accel_max
          /\ AbsV(calc'.speed_forward - calc.speed_forward_last) > FwdStep =>
                \/ calc'.accel_out = calc.accel_out_last
                \/ AbsV(calc'.accel_out) < AbsV(calc.accel_out_last)]_vars

C28_Witness ==
    /\ calc.op = "fwd"
    /\ calc.calls > 0
    /\ calc.flag_limit_accel
    /\ AbsV(calc.vel_p + calc.vel_ff - calc.accel_out_prev) > calc.accel_max
    /\ calc.accel_out = calc.accel_out_prev

-----------------------------------------------------------------------------
(* Properties of should_flare() (checked under SpecShouldFlare)              *)

ShouldFlareCalled == calc.op = "should_flare" /\ calc.called

\* C21: should_flare() returns true only when the resultant peak
\* acceleration is a number between the minimum and the maximum factor times
\* g, the sine of the implied pitch angle is within that of the angle limit,
\* and the predicted touch-down altitude is between 50% and 150% of the
\* target altitude
C21_FlareOnlyWhenFeasible ==
    (ShouldFlareCalled /\ calc.r.ret) =>
        /\ calc.r.flare_resultant_accel_peak.k = "fin"
        /\ calc.r.flare_resultant_accel_peak.v * Unit
               >= AROT_FLARE_MIN_ACCEL_PEAK * GRAVITY_CMSS - Unit
        /\ calc.r.flare_resultant_accel_peak.v * Unit
               <= AROT_FLARE_MAX_ACCEL_DEFAULT * GRAVITY_CMSS
        /\ calc.r.fwd_accel_delta.k = "fin"
        /\ AbsV(calc.r.fwd_accel_delta.v) * 10000
               <= calc.r.flare_resultant_accel_peak.v * SIN_ANGLE_MAX
        /\ 2 * calc.r.td_alt_predicted >= get_td_alt_targ
        /\ 2 * calc.r.td_alt_predicted <= 3 * get_td_alt_targ

\* C22: the touch-down altitude predicted by should_flare() is the position
\* target at the end of the flare period for the same peak delta
\* acceleration, initial velocity and initial altitude, to within 1 cm
C22_PredictionIsTrajectoryEnd ==
    (ShouldFlareCalled /\ ~calc.r.td_alt_wrapped) =>
        AbsV(calc.r.td_alt_predicted
               - calc_position_target(calc.r.flare_delta_accel_z_peak, calc.z_vel,
                                      calc.pos_z, 4, calc.period)) <= 1

\* C23: with the peak delta accelerations computed by should_flare(), the
\* velocity targets at the end of the flare period are minus the touch-down
\* speed on the vertical axis and zero on the forward axis, to within 1 cm/s
C23_EndVelocities ==
    ShouldFlareCalled =>
        /\ AbsV(calc_velocity_target(calc.r.flare_delta_accel_z_peak, calc.z_vel, 4,
                                     calc.period) + arot.param_vel_z_td) <= 1
        /\ AbsV(calc_velocity_target(calc.r.flare_delta_accel_fwd_peak, calc.fwd_vel, 4,
                                     calc.period)) <= 1

C25_IntegralEqualsPosition ==
    (calc.op = "traj" /\ calc.done) => TrajMismatch12000 = 0

\* C25: the integral over the flare period of the velocity target and the
\* position target at the end of the period less the initial position differ
\* by no more than the truncation of the targets to whole numbers allows:
\* 1 cm/s over the period for the velocity, 1 cm for the position
C25_IntegralWithinTruncation ==
    (calc.op = "traj" /\ calc.done) =>
        AbsV(TrajMismatch12000) <= 12 * calc.period + 12000

C25_Witness ==
    /\ calc.op = "traj"
    /\ calc.done
    /\ calc.accel_peak # 0
    /\ TrajMismatch12000 # 0
    /\ AbsV(TrajMismatch12000) <= 12 * calc.period + 12000

-----------------------------------------------------------------------------
(* Properties of the mode's exits and of its per-tick bookkeeping            *)
(* (checked under Spec)                                                      *)

\* C31: a tick with the interlock engaged and the vehicle landed requests the
\* previous control mode first, and leaves the phase at BAIL_OUT only if it
\* was BAIL_OUT before the tick
C31_LandedInterlockExits ==
    (Ticked /\ env.interlock /\ env.land_complete) =>
        /\ out.set_mode # << >>
        /\ out.set_mode[1] = prev_control_mode
        /\ ~active
        /\ phase_switch = BAIL_OUT => env.phase_at_start = BAIL_OUT

C31_Witness ==
    /\ Ticked
    /\ env.interlock
    /\ env.land_complete
    /\ env.phase_at_start = SS_GLIDE
    /\ phase_switch # BAIL_OUT
    /\ out.set_mode = << prev_control_mode >>

\* C32: on every tick, whichever phase is dispatched, the RPM health monitor
\* takes the tick's sample: an unhealthy reading raises the count of
\* unhealthy samples
C32_EveryTickSamplesRpm ==
    [][(TickStep /\ rpm_sample_unhealthy(env'.sensor)) =>
          arot'.unhealthy_rpm_counter > arot.unhealthy_rpm_counter]_vars

\* The one-shot flag of phase q in the flag record f
InitialFlag(f, q) ==
    CASE q = ENTRY -> f.entry_initial
      [] q = SS_GLIDE -> f.ss_glide_initial
      [] q = FLARE -> f.flare_initial
      [] q = TOUCH_DOWN -> f.touch_down_initial
      [] q = BAIL_OUT -> f.bail_out_initial

\* C33: on every tick, the run-once block of a phase executes exactly when
\* that phase is dispatched with its one-shot flag still set, never more than
\* once in the activation; the tick clears the flag of the dispatched phase
\* and no other; and the block has run before the tick's regulator update:
\* the head-speed regulator of a first ENTRY or SS_GLIDE tick filters with the
\* cut-off the block has set, the first FLARE tick starts the flare timer at
\* the current time and captures the initial conditions, the first BAIL_OUT
\* tick starts the bail-out timer at the current time
C33_RunOnceBlocks ==
    [][TickStep =>
          /\ \A q \in Autorotation_Phase :
                /\ InitialFlag(flags', q) = (InitialFlag(flags, q) /\ phase_switch' # q)
                /\ out'.once_runs[q] =
                      out.once_runs[q]
                         + (IF phase_switch' = q /\ InitialFlag(flags, q) THEN 1 ELSE 0)
                /\ out'.once_runs[q] <= 1
          /\ (phase_switch' = ENTRY /\ flags.entry_initial) =>
                /\ arot'.col_cutoff_freq = HS_CONTROLLER_ENTRY_COL_FILTER
                /\ ~arot'.bad_rpm_warning =>
                      arot'.col_trim_cutoff = HS_CONTROLLER_ENTRY_COL_FILTER
          /\ (phase_switch' = ENTRY /\ ~flags.entry_initial) =>
                arot'.col_cutoff_freq = arot.col_cutoff_freq
          /\ (phase_switch' = SS_GLIDE /\ flags.ss_glide_initial) =>
                /\ arot'.col_cutoff_freq = HS_CONTROLLER_GLIDE_COL_FILTER
                /\ ~arot'.bad_rpm_warning =>
                      arot'.col_trim_cutoff = HS_CONTROLLER_GLIDE_COL_FILTER
          /\ (phase_switch' = FLARE /\ flags.flare_initial) =>
                /\ timers'.flare_time_start = now'
                /\ arot'.flare_ic_sets = arot.flare_ic_sets + 1
          /\ (phase_switch' = BAIL_OUT /\ flags.bail_out_initial) =>
                timers'.bail_time_start = now'
          /\ (phase_switch' = TOUCH_DOWN /\ ~flags.touch_down_initial) =>
                out'.td_accel_linear = out.td_accel_linear]_vars

\* SS_GLIDE has been dispatched after several ENTRY ticks: both blocks have
\* run once, the flags of the other phases are still set
C33_Witness ==
    /\ Ticked
    /\ phase_switch = SS_GLIDE
    /\ out.once_runs[ENTRY] = 1
    /\ out.once_runs[SS_GLIDE] = 1
    /\ ~flags.entry_initial
    /\ ~flags.ss_glide_initial
    /\ flags.flare_initial
    /\ flags.touch_down_initial
    /\ flags.bail_out_initial
    /\ arot.col_trim_cutoff = HS_CONTROLLER_GLIDE_COL_FILTER

\* C36: the acceleration limit computed on the first TOUCH_DOWN tick divides
\* by a number other than zero
C36_TouchDownDivisorNonZero ==
    out.td_accel_linear # << >> => out.td_accel_linear[1].divisor # 0

\* The mode changes requested by the BAIL_OUT case of the last tick: those
\* of the tick less the one line 927 makes first when the vehicle is landed
BailOutRequests ==
    IF env.interlock /\ env.land_complete THEN Tail(out.set_mode) ELSE out.set_mode

\* C34: a tick that dispatches BAIL_OUT requests no mode change from the
\* BAIL_OUT case while the elapsed bail-out time is below the bail-out time;
\* once it is reached the request is ALT_HOLD when the previous control mode
\* was AUTO and the previous control mode otherwise, and it is the last
\* request of the tick, so the mode is never left for AUTO
C34_BailOutNeverReturnsToAuto ==
    (Ticked /\ phase_switch = BAIL_OUT) =>
        IF now - timers.bail_time_start >= timers.bail_time
        THEN /\ BailOutRequests =
                   << IF prev_control_mode = "AUTO" THEN "ALT_HOLD" ELSE prev_control_mode >>
             /\ out.set_mode[Len(out.set_mode)] # "AUTO"
        ELSE BailOutRequests = << >>

C34_Witness ==
    /\ Ticked
    /\ phase_switch = BAIL_OUT
    /\ prev_control_mode = "AUTO"
    /\ now - timers.bail_time_start >= timers.bail_time
    /\ out.set_mode = << "ALT_HOLD" >>

-----------------------------------------------------------------------------
(* Properties of AC_Autorotation::init() (checked under SpecArotInit)        *)

\* C35: after init() the pitch angle limit is the attitude controller's
\* maximum lean angle when the ANGLE_MAX parameter is 0 and the parameter
\* otherwise, raised to 1500 cdeg when that is below 1500 cdeg
C35_AngleLimitFromAttitudeControl ==
    (calc.op = "init" /\ calc.called) =>
        calc.r.angle_max =
            MAXV(IF calc.param_angle_max = 0 THEN calc.lean_angle_max
                                             ELSE calc.param_angle_max,
                 AROT_ANGLE_MAX_MIN)

-----------------------------------------------------------------------------
(* Properties of the head-speed regulator's use of unhealthy samples         *)
(* (checked under SpecHS)                                                    *)

\* C37: after every update_hs_glide_controller call whose sample is
\* unhealthy the collective is at its minimum and the proportional term has
\* not been computed from that reading
C37_UnhealthySampleNeverUsed ==
    [][(hist'.n = hist.n + 1 /\ hist'.good_run = 0) =>
          /\ arot'.collective_out = COLLECTIVE_MIN
          /\ arot'.p_term_hs = arot.p_term_hs]_vars

-----------------------------------------------------------------------------
(* Properties of the ENTRY ramp (checked under SpecEntryRamp)                *)

\* C38: after every ENTRY tick the head speed target lies between the
\* nominal ratio and the initial measured ratio, both included
C38_EntryTargetBounded ==
    (calc.op = "entry" /\ calc.ticks > 0) =>
        /\ calc.target_head_speed >= MINV(HEAD_SPEED_TARGET_RATIO, calc.initial_ratio)
        /\ calc.target_head_speed <= MAXV(HEAD_SPEED_TARGET_RATIO, calc.initial_ratio)

-----------------------------------------------------------------------------
(* Properties of the RPM health counters (checked under SpecGetRpm)          *)

\* The counters are within their ranges: healthy_count is between 0 and 9,
\* and is above 0 only while unhealthy_count is
RpmCountersInRange ==
    /\ arot.healthy_rpm_counter \in 0..(RPM_HEALTHY_CLEAR - 1)
    /\ arot.healthy_rpm_counter > 0 => arot.unhealthy_rpm_counter > 0
    /\ arot.unhealthy_rpm_counter >= 0

\* C39: every get_rpm call counts an unhealthy sample, and lowers
\* unhealthy_count only by resetting it to 0 on the 10th consecutive healthy
\* sample; the counters are within their ranges throughout
C39_UnhealthyCountAccumulates ==
    [][(hist'.n = hist.n + 1) =>
          /\ RpmCountersInRange'
          /\ hist'.good_run = 0 =>
                arot'.unhealthy_rpm_counter = arot.unhealthy_rpm_counter + 1
          /\ arot'.unhealthy_rpm_counter < arot.unhealthy_rpm_counter =>
                /\ arot'.unhealthy_rpm_counter = 0
                /\ arot'.healthy_rpm_counter = 0
                /\ arot.healthy_rpm_counter = RPM_HEALTHY_CLEAR - 1
                /\ hist'.good_run >= RPM_HEALTHY_CLEAR]_vars

\* One unhealthy sample followed by ten healthy ones: the tenth has reset
\* both counters
C39_Witness ==
    /\ hist.n = RPM_HEALTHY_CLEAR + 1
    /\ hist.good_run = RPM_HEALTHY_CLEAR
    /\ arot.unhealthy_rpm_counter = 0
    /\ arot.healthy_rpm_counter = 0

====
